---- MODULE Spec2Model ----
(***************************************************************************)
(* Model of the three command-line scripts of axe-test-example:            *)
(*   compare-accessibility.js      (console report, CommonJS)              *)
(*   compare-accessibility-pr.js   (markdown report for pull requests)     *)
(*   visual-comparison.js          (src/unnamed/part_000, screenshot diff) *)
(* One run of one script is one behaviour.  The external engines (the      *)
(* browser driver, the axe rule engine, the PNG codec and pixelmatch) are  *)
(* nondeterministic: every awaited call may reject, a scan may return any  *)
(* list of violations with distinct rule ids, a screenshot may have any of *)
(* the page sizes, pixelmatch may count any number of differing pixels.    *)
(* browser.close() is the release primitive and is taken to succeed.       *)
(***************************************************************************)
EXTENDS Integers, Sequences, FiniteSets, TLC

VARIABLES
    script,      \* which of the three scripts this run executes
    argv,        \* process.argv[2], process.argv[3]
    pc,          \* position of main()
    phase,       \* "before" / "after": which capture is in progress
    step,        \* position inside runAccessibilityScan / takeScreenshot
    vp,          \* index into Object.entries(VIEWPORTS) of the running loop
    launched,    \* number of chromium.launch() calls that returned a browser
    browsers,    \* browser sessions currently open (identified by launch number)
    captures,    \* the launches in order: <<[phase, key]>>
    written,     \* names of the files and directories written by this run
    dirExists,   \* existsSync('visual-comparison') at start
    scan,        \* results held by the running runAccessibilityScan
    files,       \* contents of before-results.json / after-results.json
    comparison,  \* what compareResults returned
    img,         \* the two screenshots of the current viewport (sizes)
    results,     \* visual-comparison main(): results, in insertion order
    report,      \* what the report generator returned
    exitCode     \* process exit code (meaningful once pc = "exited")

vars == <<script, argv, pc, phase, step, vp, launched, browsers, captures,
          written, dirExists, scan, files, comparison, img, results, report,
          exitCode>>

None == "none"
Undefined == "undefined"
\* the value of a variable or property nothing was assigned to
Unset == <<>>

(***************************************************************************)
(* Bounds of the model.                                                    *)
(***************************************************************************)
\* number of distinct axe rule ids a scan can report
NumRules == 2
\* largest number of affected nodes of one violation
MaxNodes == 2
\* how many pixels a full-page screenshot can be taller/wider than the viewport
ExtraPixels == 100

Scripts == {"compare-accessibility", "compare-accessibility-pr", "visual-comparison"}
AxeScripts == {"compare-accessibility", "compare-accessibility-pr"}

\* process.argv[i] is absent, the empty string, or a URL
ArgValues == {Undefined, "", "http://site"}

\* JavaScript truthiness of an argument
Truthy(a) == a # Undefined /\ a # ""

(***************************************************************************)
(* Accessibility scan results.  A violation is [id, nodes]; nodes is the   *)
(* list of affected elements (only its length is ever read by the diff).   *)
(***************************************************************************)
RuleIds == 1..NumRules
NodeLists == {[i \in 1..n |-> i] : n \in 1..MaxNodes}
Violations == [id : RuleIds, nodes : NodeLists]

UniqueIds(vs) == \A i, j \in DOMAIN vs : vs[i].id = vs[j].id => i = j

\* every violations list axe can return: rule ids are unique within a scan
ViolationLists ==
    {vs \in UNION {[1..n -> Violations] : n \in 0..NumRules} : UniqueIds(vs)}

\* JSON.stringify / JSON.parse of a results object
JSONstringify(r) == [json |-> r]
JSONparse(s) == s.json

(***************************************************************************)
(* JavaScript Map: entries in insertion order; set() of a present key      *)
(* overwrites the value in place.                                          *)
(***************************************************************************)
MapHas(m, k) == \E i \in DOMAIN m : m[i].key = k

\* m.get(k); Unset stands for undefined
MapGet(m, k) ==
    IF MapHas(m, k) THEN m[CHOOSE i \in DOMAIN m : m[i].key = k].value
    ELSE Unset

MapSet(m, k, v) ==
    IF MapHas(m, k)
    THEN [i \in DOMAIN m |-> IF m[i].key = k THEN [key |-> k, value |-> v] ELSE m[i]]
    ELSE Append(m, [key |-> k, value |-> v])

RECURSIVE MapFromFrom(_, _)
MapFromFrom(m, vs) ==
    IF vs = <<>> THEN m
    ELSE MapFromFrom(MapSet(m, Head(vs).id, Head(vs)), Tail(vs))

\* a mutant of NewViolationMap: the last violation is not entered
NewViolationMapDropLast(vs) ==
    MapFromFrom(<<>>, IF vs = <<>> THEN vs ELSE SubSeq(vs, 1, Len(vs) - 1))

\* new Map(violations.map(v => [v.id, v]))
NewViolationMap(vs) == MapFromFrom(<<>>, vs)

RECURSIVE SumNodes(_)
\* violations.reduce((sum, v) => sum + v.nodes.length, 0)
SumNodes(vs) ==
    IF vs = <<>> THEN 0 ELSE Len(Head(vs).nodes) + SumNodes(Tail(vs))

\* a mutant of NewViolations: the negation is lost
NewViolationsPresent(beforeViolations, after) ==
    SelectSeq(after.violations, LAMBDA v : MapHas(beforeViolations, v.id))

\* after.violations.filter(v => !beforeViolations.has(v.id))
NewViolations(beforeViolations, after) ==
    SelectSeq(after.violations, LAMBDA v : ~MapHas(beforeViolations, v.id))

\* before.violations.filter(v => !afterViolations.has(v.id))
FixedViolations(before, afterViolations) ==
    SelectSeq(before.violations, LAMBDA v : ~MapHas(afterViolations, v.id))

\* a mutant of ChangedEntry: the delta is taken the wrong way round
ChangedEntrySwapped(s, id, beforeV, afterV) ==
    IF s = "compare-accessibility-pr"
    THEN [id |-> id, rule |-> afterV, before |-> Len(beforeV.nodes),
          after |-> Len(afterV.nodes),
          change |-> Len(beforeV.nodes) - Len(afterV.nodes)]
    ELSE [id |-> id, before |-> Len(beforeV.nodes), after |-> Len(afterV.nodes),
          change |-> Len(beforeV.nodes) - Len(afterV.nodes)]

\* the object pushed on changedViolations (the PR script adds rule: afterV)
ChangedEntry(s, id, beforeV, afterV) ==
    IF s = "compare-accessibility-pr"
    THEN [id |-> id, rule |-> afterV, before |-> Len(beforeV.nodes),
          after |-> Len(afterV.nodes),
          change |-> Len(afterV.nodes) - Len(beforeV.nodes)]
    ELSE [id |-> id, before |-> Len(beforeV.nodes), after |-> Len(afterV.nodes),
          change |-> Len(afterV.nodes) - Len(beforeV.nodes)]

\* beforeV && beforeV.nodes.length !== afterV.nodes.length
IsChanged(beforeV, afterV) ==
    beforeV # Unset /\ Len(beforeV.nodes) # Len(afterV.nodes)

RECURSIVE ChangedFrom(_, _, _)
\* afterViolations.forEach((afterV, id) => { ... changedViolations.push(...) })
ChangedFrom(s, beforeMap, afterEntries) ==
    IF afterEntries = <<>> THEN <<>>
    ELSE LET e == Head(afterEntries)
             beforeV == MapGet(beforeMap, e.key)
             rest == ChangedFrom(s, beforeMap, Tail(afterEntries))
         IN  IF IsChanged(beforeV, e.value)
             THEN <<ChangedEntry(s, e.key, beforeV, e.value)>> \o rest
             ELSE rest

\* compareResults of script s, on the two parsed results objects
compareResults(s, before, after) ==
    LET beforeViolations == NewViolationMap(before.violations)
        afterViolations == NewViolationMap(after.violations)
    IN  [summary |->
            [before |-> [total |-> Len(before.violations),
                         totalNodes |-> SumNodes(before.violations)],
             after |-> [total |-> Len(after.violations),
                        totalNodes |-> SumNodes(after.violations)]],
         newViolations |-> NewViolations(beforeViolations, after),
         fixedViolations |-> FixedViolations(before, afterViolations),
         changedViolations |-> ChangedFrom(s, beforeViolations, afterViolations)]

(***************************************************************************)
(* Report and exit code of the two accessibility scripts.                  *)
(***************************************************************************)
\* a mutant of ExitCodeFor: a grown violation fails the run as well
ExitCodeForGrown(c) ==
    IF Len(c.newViolations) > 0
       \/ \E i \in DOMAIN c.changedViolations : c.changedViolations[i].change > 0
    THEN 1 ELSE 0

\* comparison.newViolations.length > 0 ? 1 : 0
ExitCodeFor(c) == IF Len(c.newViolations) > 0 THEN 1 ELSE 0

Ids(vs) == [i \in DOMAIN vs |-> vs[i].id]

\* compare-accessibility.js generateReport: the console sections, the return value
generateReport(c) ==
    [net |-> c.summary.after.totalNodes - c.summary.before.totalNodes,
     newSection |-> IF Len(c.newViolations) > 0 THEN Ids(c.newViolations) ELSE <<>>,
     fixedSection |-> IF Len(c.fixedViolations) > 0 THEN Ids(c.fixedViolations) ELSE <<>>,
     changedSection |->
        IF Len(c.changedViolations) > 0 THEN Ids(c.changedViolations) ELSE <<>>,
     exitCode |-> ExitCodeFor(c)]

\* a mutant of generateMarkdownReportPR: the banner looks at the new list only
generateMarkdownReportPRNewOnly(c) ==
    LET net == c.summary.after.totalNodes - c.summary.before.totalNodes
    IN [status |-> IF net > 0 THEN "worse" ELSE IF net < 0 THEN "better" ELSE "same",
        net |-> net,
        newSection |-> IF Len(c.newViolations) > 0 THEN Ids(c.newViolations) ELSE <<>>,
        fixedSection |->
           IF Len(c.fixedViolations) > 0 THEN Ids(c.fixedViolations) ELSE <<>>,
        changedSection |->
           IF Len(c.changedViolations) > 0 THEN Ids(c.changedViolations) ELSE <<>>,
        noNewIssuesBanner |-> Len(c.newViolations) = 0]

\* compare-accessibility-pr.js generateMarkdownReport: the sections of the markdown
generateMarkdownReportPR(c) ==
    LET net == c.summary.after.totalNodes - c.summary.before.totalNodes
    IN [status |-> IF net > 0 THEN "worse" ELSE IF net < 0 THEN "better" ELSE "same",
        net |-> net,
        newSection |-> IF Len(c.newViolations) > 0 THEN Ids(c.newViolations) ELSE <<>>,
        fixedSection |->
           IF Len(c.fixedViolations) > 0 THEN Ids(c.fixedViolations) ELSE <<>>,
        changedSection |->
           IF Len(c.changedViolations) > 0 THEN Ids(c.changedViolations) ELSE <<>>,
        noNewIssuesBanner |->
           /\ Len(c.newViolations) = 0
           /\ Len(SelectSeq(c.changedViolations, LAMBDA v : v.change > 0)) = 0]

(***************************************************************************)
(* visual-comparison.js (src/unnamed/part_000).                            *)
(* Percentages are held in thousandths of a percent: toFixed(3) yields a   *)
(* decimal string with three digits, which the comparisons with            *)
(* DIFF_THRESHOLD and 0 convert back to that number.                       *)
(***************************************************************************)
VIEWPORTS ==
    << [key |-> "mobile", width |-> 390, height |-> 844],
       [key |-> "laptop", width |-> 1440, height |-> 900],
       [key |-> "desktop", width |-> 1920, height |-> 1080] >>

\* DIFF_THRESHOLD = 0.1 (percent), in thousandths of a percent
DIFF_THRESHOLD == 100

\* the number -1 of the sentinel records, in thousandths
MinusOne == 0 - 1000

\* sizes a full-page screenshot of a viewport can have
ImageSizes(v) ==
    {[width |-> w, height |-> h] :
        w \in {v.width, v.width + ExtraPixels},
        h \in {v.height, v.height + ExtraPixels}}

\* counts pixelmatch can return for images of `total` pixels
DiffPixelChoices(total) ==
    {0, 1, total \div 2000, total \div 1000, total \div 500, total}

RECURSIVE DivDigits(_, _, _)
\* [q, r]: quotient and remainder of n * 10^k by d, digit by digit
DivDigits(n, d, k) ==
    IF k = 0 THEN [q |-> n \div d, r |-> n % d]
    ELSE LET p == DivDigits(n, d, k - 1)
         IN  [q |-> p.q * 10 + ((p.r * 10) \div d), r |-> (p.r * 10) % d]

\* ((diffPixels / totalPixels) * 100).toFixed(3), in thousandths
ToFixed3(diffPixels, totalPixels) ==
    LET p == DivDigits(diffPixels, totalPixels, 5)
    IN  p.q + (IF 2 * p.r >= totalPixels THEN 1 ELSE 0)

\* a mutant of SizesDiffer: both dimensions must differ
SizesDifferBoth(img1, img2) ==
    img2.width # img1.width /\ img2.height # img1.height

\* img2.width !== width || img2.height !== height
SizesDiffer(img1, img2) ==
    img2.width # img1.width \/ img2.height # img1.height

\* what compareImages returns when pixelmatch counts diffPixels
compareImages(img1, img2, diffPixels) ==
    IF SizesDiffer(img1, img2)
    THEN [diffPixels |-> 0 - 1, diffPercentage |-> MinusOne, sizeMismatch |-> TRUE]
    ELSE [diffPixels |-> diffPixels,
          diffPercentage |-> ToFixed3(diffPixels, img1.width * img1.height),
          totalPixels |-> img1.width * img1.height,
          sizeMismatch |-> FALSE]

\* the record main() stores when a viewport fails
ErrorRecord(message) == [error |-> message, diffPercentage |-> MinusOne]

\* result.<flag> is truthy (an absent property is undefined, hence falsy)
Flag(r, f) == f \in DOMAIN r /\ r[f] = TRUE

\* result.<field> is undefined
IsUndefined(r, f) == f \notin DOMAIN r

\* a mutant of SummaryRow: the threshold itself counts as significant
SummaryRowInclusive(result) ==
    IF Flag(result, "sizeMismatch")
    THEN [status |-> "Size Mismatch", hasChanges |-> TRUE]
    ELSE IF result.diffPercentage >= DIFF_THRESHOLD
    THEN [status |-> "Changes Detected", hasChanges |-> TRUE]
    ELSE IF result.diffPercentage > 0
    THEN [status |-> "Minor Differences", hasChanges |-> TRUE]
    ELSE [status |-> "No Changes", hasChanges |-> FALSE]

\* one pass of the summary loop: the status of the row, and whether the
\* branch taken sets hasChanges
SummaryRow(result) ==
    IF Flag(result, "sizeMismatch")
    THEN [status |-> "Size Mismatch", hasChanges |-> TRUE]
    ELSE IF result.diffPercentage > DIFF_THRESHOLD
    THEN [status |-> "Changes Detected", hasChanges |-> TRUE]
    ELSE IF result.diffPercentage > 0
    THEN [status |-> "Minor Differences", hasChanges |-> TRUE]
    ELSE [status |-> "No Changes", hasChanges |-> FALSE]

\* the detail section reads result.diffPixels.toLocaleString() and
\* result.totalPixels.toLocaleString(): a TypeError when either is undefined
DetailThrows(result) ==
    /\ ~Flag(result, "sizeMismatch")
    /\ (IsUndefined(result, "diffPixels") \/ IsUndefined(result, "totalPixels"))

\* the artifact links of a detail section
DetailLinks(result) ==
    IF ~Flag(result, "sizeMismatch")
    THEN {"before", "after", "diff"} ELSE {"before", "after"}

\* the detail section of one viewport
DetailSection(key, result) ==
    [key |-> key,
     label |-> IF Flag(result, "sizeMismatch") THEN "Size Mismatch"
               ELSE IF result.diffPercentage > DIFF_THRESHOLD THEN "Significant changes"
               ELSE IF result.diffPercentage > 0 THEN "Minor differences"
               ELSE "No differences",
     links |-> DetailLinks(result)]

\* visual-comparison generateMarkdownReport over Object.entries(results)
generateMarkdownReport(res) ==
    IF \E i \in DOMAIN res : DetailThrows(res[i].value)
    THEN [threw |-> TRUE]
    ELSE [threw |-> FALSE,
          rows |-> [i \in DOMAIN res |->
                       [key |-> res[i].key,
                        status |-> SummaryRow(res[i].value).status]],
          hasChanges |-> \E i \in DOMAIN res : SummaryRow(res[i].value).hasChanges,
          details |-> [i \in DOMAIN res |-> DetailSection(res[i].key, res[i].value)]]

(***************************************************************************)
(* The runs.                                                               *)
(***************************************************************************)
ResultsFile(ph) == <<ph, "results.json">>
ShotFile(prefix, key) == <<prefix, key, "png">>
OutputDir == <<"visual-comparison">>
AxeReportFile == <<"accessibility-report.md">>
VisualReportFile == <<"visual-comparison-report.md">>

Init ==
    /\ script \in Scripts
    /\ argv \in [before : ArgValues, after : ArgValues]
    /\ pc = "start"
    /\ phase = None
    /\ step = None
    /\ vp = 0
    /\ launched = 0
    /\ browsers = {}
    /\ captures = <<>>
    /\ written = {}
    /\ dirExists \in (IF script = "visual-comparison" THEN BOOLEAN ELSE {FALSE})
    /\ scan = Unset
    /\ files = <<>>
    /\ comparison = Unset
    /\ img = Unset
    /\ results = <<>>
    /\ report = Unset
    /\ exitCode = 0

\* a mutant of UsageError: only a run without both URLs is refused
UsageErrorBoth(a) == ~Truthy(a.before) /\ ~Truthy(a.after)

\* !beforeUrl || !afterUrl
UsageError(a) == ~Truthy(a.before) \/ ~Truthy(a.after)

\* process.exit(code)
Exit(code) == pc' = "exited" /\ exitCode' = code

\* main().catch(error => { console.error(...); process.exit(1); })
MainCatch == Exit(1)

(***************************************************************************)
(* compare-accessibility.js and compare-accessibility-pr.js                *)
(***************************************************************************)
\* main: the usage check, then the first scan
A_CheckArgs ==
    /\ script \in AxeScripts
    /\ pc = "start"
    /\ IF UsageError(argv)
       THEN /\ Exit(1)
            /\ UNCHANGED <<phase, step>>
       ELSE /\ pc' = "scan"
            /\ phase' = "before"
            /\ step' = "launch"
            /\ UNCHANGED exitCode
    /\ UNCHANGED <<script, argv, vp, launched, browsers, captures, written,
                   dirExists, scan, files, comparison, img, results, report>>

\* runAccessibilityScan: chromium.launch()
Scan_Launch ==
    /\ script \in AxeScripts
    /\ pc = "scan"
    /\ step = "launch"
    /\ \/ /\ launched' = launched + 1
          /\ browsers' = browsers \cup {launched + 1}
          /\ captures' = Append(captures, [phase |-> phase, key |-> "scan"])
          /\ step' = "newContext"
          /\ UNCHANGED <<pc, exitCode>>
       \/ /\ MainCatch
          /\ UNCHANGED <<launched, browsers, captures, step>>
    /\ UNCHANGED <<script, argv, phase, vp, written, dirExists, scan, files,
                   comparison, img, results, report>>

\* runAccessibilityScan: newContext(), newPage(), page.goto(url); a rejection
\* leaves the function without closing the browser
Scan_Open ==
    /\ script \in AxeScripts
    /\ pc = "scan"
    /\ step \in {"newContext", "newPage", "goto"}
    /\ \/ /\ step' = CASE step = "newContext" -> "newPage"
                       [] step = "newPage" -> "goto"
                       [] step = "goto" -> "analyze"
          /\ UNCHANGED <<pc, exitCode>>
       \/ /\ MainCatch
          /\ UNCHANGED step
    /\ UNCHANGED <<script, argv, phase, vp, launched, browsers, captures, written,
                   dirExists, scan, files, comparison, img, results, report>>

\* runAccessibilityScan: new AxeBuilder({ page }).withTags(...).analyze()
Scan_Analyze ==
    /\ script \in AxeScripts
    /\ pc = "scan"
    /\ step = "analyze"
    /\ \/ /\ \E vs \in ViolationLists : scan' = [violations |-> vs]
          /\ step' = "write"
          /\ UNCHANGED <<pc, exitCode>>
       \/ /\ MainCatch
          /\ UNCHANGED <<scan, step>>
    /\ UNCHANGED <<script, argv, phase, vp, launched, browsers, captures, written,
                   dirExists, files, comparison, img, results, report>>

\* runAccessibilityScan: writeFileSync(outputFile, JSON.stringify(results))
Scan_Write ==
    /\ script \in AxeScripts
    /\ pc = "scan"
    /\ step = "write"
    /\ \/ /\ files' = (ResultsFile(phase) :> JSONstringify(scan)) @@ files
          /\ written' = written \cup {ResultsFile(phase)}
          /\ step' = "close"
          /\ UNCHANGED <<pc, exitCode>>
       \/ /\ MainCatch
          /\ UNCHANGED <<files, written, step>>
    /\ UNCHANGED <<script, argv, phase, vp, launched, browsers, captures,
                   dirExists, scan, comparison, img, results, report>>

\* runAccessibilityScan: browser.close() and return; main goes on to the
\* second scan, or to the comparison
Scan_Close ==
    /\ script \in AxeScripts
    /\ pc = "scan"
    /\ step = "close"
    /\ browsers' = browsers \ {launched}
    /\ scan' = Unset
    /\ IF phase = "before"
       THEN /\ phase' = "after"
            /\ step' = "launch"
            /\ pc' = pc
       ELSE /\ phase' = None
            /\ step' = None
            /\ pc' = "compare"
    /\ UNCHANGED <<script, argv, vp, launched, captures, written, dirExists,
                   files, comparison, img, results, report, exitCode>>

\* main: compareResults('before-results.json', 'after-results.json')
A_Compare ==
    /\ script \in AxeScripts
    /\ pc = "compare"
    /\ comparison' = compareResults(script,
                                    JSONparse(files[ResultsFile("before")]),
                                    JSONparse(files[ResultsFile("after")]))
    /\ pc' = "report"
    /\ UNCHANGED <<script, argv, phase, step, vp, launched, browsers, captures,
                   written, dirExists, scan, files, img, results, report,
                   exitCode>>

\* compare-accessibility.js main: generateReport, process.exit(exitCode)
A_Report ==
    /\ script = "compare-accessibility"
    /\ pc = "report"
    /\ report' = generateReport(comparison)
    /\ Exit(report'.exitCode)
    /\ UNCHANGED <<script, argv, phase, step, vp, launched, browsers, captures,
                   written, dirExists, scan, files, comparison, img, results>>

\* compare-accessibility-pr.js main: generateMarkdownReport, writeFileSync of
\* the report (which may throw), process.exit(exitCode)
PR_Report ==
    /\ script = "compare-accessibility-pr"
    /\ pc = "report"
    /\ report' = generateMarkdownReportPR(comparison)
    /\ \/ /\ written' = written \cup {AxeReportFile}
          /\ Exit(ExitCodeFor(comparison))
       \/ /\ MainCatch
          /\ UNCHANGED written
    /\ UNCHANGED <<script, argv, phase, step, vp, launched, browsers, captures,
                   dirExists, scan, files, comparison, img, results>>

(***************************************************************************)
(* visual-comparison.js                                                    *)
(***************************************************************************)
Key == VIEWPORTS[vp].key

\* the for loop goes on with the next entry of VIEWPORTS, or ends
NextViewport ==
    /\ img' = Unset
    /\ IF vp = Len(VIEWPORTS)
       THEN /\ pc' = "report"
            /\ phase' = None
            /\ step' = None
            /\ vp' = vp
       ELSE /\ pc' = pc
            /\ phase' = "before"
            /\ step' = "launch"
            /\ vp' = vp + 1

\* a mutant of LoopCatch: the error is rethrown and reaches main().catch
LoopCatchRethrow(message) ==
    /\ MainCatch
    /\ UNCHANGED <<results, img, phase, step, vp>>

\* main: catch (error) { results[key] = { error: error.message, diffPercentage: -1 } }
LoopCatch(message) ==
    /\ results' = MapSet(results, Key, ErrorRecord(message))
    /\ NextViewport
    /\ UNCHANGED exitCode

\* main: the usage check
V_CheckArgs ==
    /\ script = "visual-comparison"
    /\ pc = "start"
    /\ IF UsageError(argv)
       THEN Exit(1)
       ELSE /\ pc' = "mkdir"
            /\ UNCHANGED exitCode
    /\ UNCHANGED <<script, argv, phase, step, vp, launched, browsers, captures,
                   written, dirExists, scan, files, comparison, img, results,
                   report>>

\* main: if (!existsSync(outputDir)) mkdirSync(outputDir), then the loop starts
V_Mkdir ==
    /\ script = "visual-comparison"
    /\ pc = "mkdir"
    /\ \/ /\ written' = IF dirExists THEN written ELSE written \cup {OutputDir}
          /\ pc' = "loop"
          /\ vp' = 1
          /\ phase' = "before"
          /\ step' = "launch"
          /\ UNCHANGED exitCode
       \/ /\ ~dirExists
          /\ MainCatch
          /\ UNCHANGED <<written, vp, phase, step>>
    /\ UNCHANGED <<script, argv, launched, browsers, captures, dirExists, scan,
                   files, comparison, img, results, report>>

\* takeScreenshot: chromium.launch()
Shot_Launch ==
    /\ script = "visual-comparison"
    /\ pc = "loop"
    /\ step = "launch"
    /\ \/ /\ launched' = launched + 1
          /\ browsers' = browsers \cup {launched + 1}
          /\ captures' = Append(captures, [phase |-> phase, key |-> Key])
          /\ step' = "newContext"
          /\ UNCHANGED <<pc, phase, vp, img, results, exitCode>>
       \/ /\ LoopCatch("launch")
          /\ UNCHANGED <<launched, browsers, captures>>
    /\ UNCHANGED <<script, argv, written, dirExists, scan, files, comparison,
                   report>>

\* takeScreenshot: browser.newContext(), context.newPage(): both are called
\* before the try block, so a rejection skips the finally that closes the browser
Shot_Open ==
    /\ script = "visual-comparison"
    /\ pc = "loop"
    /\ step \in {"newContext", "newPage"}
    /\ \/ /\ step' = IF step = "newContext" THEN "newPage" ELSE "goto"
          /\ UNCHANGED <<pc, phase, vp, img, results, exitCode>>
       \/ LoopCatch(step)
    /\ UNCHANGED <<script, argv, launched, browsers, captures, written,
                   dirExists, scan, files, comparison, report>>

\* takeScreenshot: page.goto and waitForTimeout inside try; on a rejection the
\* finally closes the browser and the error reaches the loop's catch
Shot_Goto ==
    /\ script = "visual-comparison"
    /\ pc = "loop"
    /\ step = "goto"
    /\ \/ /\ step' = "screenshot"
          /\ UNCHANGED <<pc, phase, vp, img, results, browsers, exitCode>>
       \/ /\ browsers' = browsers \ {launched}
          /\ LoopCatch("goto")
    /\ UNCHANGED <<script, argv, launched, captures, written, dirExists, scan,
                   files, comparison, report>>

\* takeScreenshot: page.screenshot({ path: filename, fullPage: true })
Shot_Screenshot ==
    /\ script = "visual-comparison"
    /\ pc = "loop"
    /\ step = "screenshot"
    /\ \/ /\ \E size \in ImageSizes(VIEWPORTS[vp]) : img' = (phase :> size) @@ img
          /\ written' = written \cup {ShotFile(phase, Key)}
          /\ step' = "close"
          /\ UNCHANGED <<pc, phase, vp, results, browsers, exitCode>>
       \/ /\ browsers' = browsers \ {launched}
          /\ LoopCatch("screenshot")
          /\ UNCHANGED written
    /\ UNCHANGED <<script, argv, launched, captures, dirExists, scan, files,
                   comparison, report>>

\* takeScreenshot: finally { await browser.close() } and return
Shot_Close ==
    /\ script = "visual-comparison"
    /\ pc = "loop"
    /\ step = "close"
    /\ browsers' = browsers \ {launched}
    /\ IF phase = "before"
       THEN /\ phase' = "after"
            /\ step' = "launch"
       ELSE /\ phase' = phase
            /\ step' = "compare"
    /\ UNCHANGED <<script, argv, pc, vp, launched, captures, written, dirExists,
                   scan, files, comparison, img, results, report, exitCode>>

\* main: results[key] = compareImages(beforePath, afterPath, diffPath);
\* PNG.sync.read or the write of the diff image may throw
V_CompareImages ==
    /\ script = "visual-comparison"
    /\ pc = "loop"
    /\ step = "compare"
    /\ \/ /\ LoopCatch("decode")
          /\ UNCHANGED written
       \/ /\ SizesDiffer(img.before, img.after)
          /\ results' = MapSet(results, Key, compareImages(img.before, img.after, 0))
          /\ NextViewport
          /\ UNCHANGED <<written, exitCode>>
       \/ /\ ~SizesDiffer(img.before, img.after)
          /\ \E diffPixels \in DiffPixelChoices(img.before.width * img.before.height) :
                \/ /\ written' = written \cup {ShotFile("diff", Key)}
                   /\ results' = MapSet(results, Key,
                                        compareImages(img.before, img.after, diffPixels))
                   /\ NextViewport
                   /\ UNCHANGED exitCode
                \/ /\ LoopCatch("writeDiff")
                   /\ UNCHANGED written
    /\ UNCHANGED <<script, argv, launched, browsers, captures, dirExists, scan,
                   files, comparison, report>>

\* main: generateMarkdownReport, writeFileSync of the report, normal end
V_Report ==
    /\ script = "visual-comparison"
    /\ pc = "report"
    /\ report' = generateMarkdownReport(results)
    /\ \/ /\ ~report'.threw
          /\ written' = written \cup {VisualReportFile}
          /\ Exit(0)
       \/ /\ MainCatch
          /\ UNCHANGED written
    /\ UNCHANGED <<script, argv, phase, step, vp, launched, browsers, captures,
                   dirExists, scan, files, comparison, img, results>>

NextAxe ==
    \/ A_CheckArgs
    \/ Scan_Launch
    \/ Scan_Open
    \/ Scan_Analyze
    \/ Scan_Write
    \/ Scan_Close
    \/ A_Compare
    \/ A_Report
    \/ PR_Report

NextVisual ==
    \/ V_CheckArgs
    \/ V_Mkdir
    \/ Shot_Launch
    \/ Shot_Open
    \/ Shot_Goto
    \/ Shot_Screenshot
    \/ Shot_Close
    \/ V_CompareImages
    \/ V_Report

Next == NextAxe \/ NextVisual

\* a run of any of the three scripts
Spec == Init /\ [][Next]_vars

\* the runs of the two accessibility scripts
InitAxe == Init /\ script \in AxeScripts
SpecAxe == InitAxe /\ [][NextAxe]_vars

\* the runs of visual-comparison.js
InitVisual == Init /\ script = "visual-comparison"
SpecVisual == InitVisual /\ [][NextVisual]_vars

(***************************************************************************)
(* Properties of the accessibility comparison.                             *)
(***************************************************************************)
Compared == script \in AxeScripts /\ comparison # Unset

\* the violations lists of the two scans, as compareResults reads them
BeforeList == JSONparse(files[ResultsFile("before")]).violations
AfterList == JSONparse(files[ResultsFile("after")]).violations

IdSet(vs) == {vs[i].id : i \in DOMAIN vs}
Range(f) == {f[i] : i \in DOMAIN f}

\* number of affected nodes the scan vs reports for rule id
NodeCount(vs, id) == Len(vs[CHOOSE i \in DOMAIN vs : vs[i].id = id].nodes)

OnlyAfter == IdSet(AfterList) \ IdSet(BeforeList)
OnlyBefore == IdSet(BeforeList) \ IdSet(AfterList)
InBoth == IdSet(BeforeList) \cap IdSet(AfterList)
BothDiffer == {id \in InBoth : NodeCount(BeforeList, id) # NodeCount(AfterList, id)}
BothEqual == {id \in InBoth : NodeCount(BeforeList, id) = NodeCount(AfterList, id)}

\* how many entries of the list vs carry rule id
Occurrences(vs, id) == Cardinality({i \in DOMAIN vs : vs[i].id = id})

\* C1: compareResults partitions the union of the before/after rule ids: an id
\* only in after is listed once in new and nowhere else, an id only in before
\* once in fixed and nowhere else, an id in both with different node counts
\* once in changed and nowhere else, an id in both with equal counts nowhere;
\* the lists hold no other id.
C1_Partition ==
    Compared =>
        LET c == comparison
            listed(id) == <<Occurrences(c.newViolations, id),
                            Occurrences(c.fixedViolations, id),
                            Occurrences(c.changedViolations, id)>>
        IN  /\ \A id \in OnlyAfter : listed(id) = <<1, 0, 0>>
            /\ \A id \in OnlyBefore : listed(id) = <<0, 1, 0>>
            /\ \A id \in BothDiffer : listed(id) = <<0, 0, 1>>
            /\ \A id \in BothEqual : listed(id) = <<0, 0, 0>>
            /\ IdSet(c.newViolations) \cup IdSet(c.fixedViolations)
                  \cup IdSet(c.changedViolations)
               \subseteq IdSet(BeforeList) \cup IdSet(AfterList)

\* a comparison with a new, a changed rule; one with a fixed, an unchanged rule
C1_Witness ==
    /\ Compared
    /\ OnlyAfter # {}
    /\ BothDiffer # {}
    /\ Len(comparison.newViolations) = 1
    /\ Len(comparison.changedViolations) = 1

\* C7: the changed list holds exactly the rules present in both scans whose
\* node counts differ; each entry records before, after and change = after -
\* before, so no entry has change = 0.
C7_Changed ==
    Compared =>
        LET ch == comparison.changedViolations
        IN  /\ IdSet(ch) = BothDiffer
            /\ Len(ch) = Cardinality(BothDiffer)
            /\ \A i \in DOMAIN ch :
                  /\ ch[i].before = NodeCount(BeforeList, ch[i].id)
                  /\ ch[i].after = NodeCount(AfterList, ch[i].id)
                  /\ ch[i].change = ch[i].after - ch[i].before
                  /\ ch[i].change # 0

\* a grown and a shrunk rule are listed, an unchanged one is not
C7_Witness ==
    /\ Compared
    /\ BothEqual = {}
    /\ \E i, j \in DOMAIN comparison.changedViolations :
          /\ comparison.changedViolations[i].change > 0
          /\ comparison.changedViolations[j].change < 0

\* the orderings of a list of distinct entries
Orderings(vs) ==
    {[i \in DOMAIN vs |-> vs[p[i]]] :
        p \in {q \in [DOMAIN vs -> DOMAIN vs] : Range(q) = DOMAIN vs}}

\* C10 as stated: whatever the order of the violations in either scan,
\* compareResults returns the same comparison.
C10_SameComparison ==
    (Compared /\ pc = "report") =>
        \A pb \in Orderings(BeforeList), pa \in Orderings(AfterList) :
            compareResults(script, [violations |-> pb], [violations |-> pa])
               = comparison

\* a comparison with each of its lists taken as a set of entries and a length
UpToOrder(c) ==
    <<c.summary,
      Range(c.newViolations), Len(c.newViolations),
      Range(c.fixedViolations), Len(c.fixedViolations),
      Range(c.changedViolations), Len(c.changedViolations)>>

\* C10 amended: whatever the order of the violations in either scan,
\* compareResults returns the same summary totals and the same new, fixed and
\* changed entries, each list as long as before; only the order of the entries
\* within a list follows the order of the scan.
C10_SameUpToOrder ==
    (Compared /\ pc = "report") =>
        \A pb \in Orderings(BeforeList), pa \in Orderings(AfterList) :
            UpToOrder(compareResults(script, [violations |-> pb], [violations |-> pa]))
               = UpToOrder(comparison)

\* both scans list two rules, and the comparison lists two entries
C10_Witness ==
    /\ Compared
    /\ pc = "report"
    /\ Len(BeforeList) = 2
    /\ Len(AfterList) = 2
    /\ Len(comparison.changedViolations) = 2

\* C2 as stated: once both scans and the comparison have completed, the run
\* exits with a non-zero code exactly when the new-violations list is non-empty.
C2_ExitIffNew ==
    (Compared /\ pc = "exited") =>
        (exitCode # 0 <=> Len(comparison.newViolations) > 0)

\* C2 amended: once both scans and the comparison have completed and, in
\* compare-accessibility-pr.js, the report file has been written, the run exits
\* with a non-zero code exactly when the new-violations list is non-empty,
\* whatever the fixed and changed lists hold; when writing the report throws,
\* the run exits with code 1.
C2_ExitIffNewOnceReported ==
    (Compared /\ pc = "exited") =>
        /\ exitCode \in {0, 1}
        /\ (script = "compare-accessibility-pr" /\ AxeReportFile \notin written)
              => exitCode = 1
        /\ (script = "compare-accessibility" \/ AxeReportFile \in written)
              => (exitCode # 0 <=> Len(comparison.newViolations) > 0)

\* the PR script exits 0 although a violation grew and another was fixed
C2_Witness ==
    /\ Compared
    /\ pc = "exited"
    /\ script = "compare-accessibility-pr"
    /\ AxeReportFile \in written
    /\ exitCode = 0
    /\ \E i \in DOMAIN comparison.changedViolations :
          comparison.changedViolations[i].change > 0
    /\ Len(comparison.fixedViolations) > 0

(***************************************************************************)
(* Properties of the visual comparison.                                    *)
(***************************************************************************)
Visual == script = "visual-comparison"

\* the viewport loop has ended
LoopEnded == Visual /\ (pc = "report" \/ (pc = "exited" /\ vp >= 1))

\* main wrote the report
Reported == Visual /\ pc = "exited" /\ VisualReportFile \in written

IsErrorRecord(r) ==
    /\ DOMAIN r = {"error", "diffPercentage"}
    /\ r.diffPercentage = 0 - 1000

\* C3 as stated: whatever the per-viewport outcomes, generateMarkdownReport
\* returns a report for the results of the loop, main writes it to
\* visual-comparison-report.md and the run does not end with a non-zero code.
C3_ReportAlwaysGenerated ==
    LoopEnded =>
        /\ ~generateMarkdownReport(results).threw
        /\ pc = "exited" => (VisualReportFile \in written /\ exitCode = 0)

\* C4: a failure in one viewport leaves an error record (message, -1) in its
\* slot and the loop goes on: while the loop runs the viewports before the
\* current one have their slot, when it has ended every key of VIEWPORTS has
\* exactly one slot, in the order of VIEWPORTS; a viewport whose two
\* screenshots were not both taken has an error record, and nothing but the
\* usage check and mkdir ends the run before the loop has ended.
C4_LoopContinues ==
    Visual =>
        /\ pc = "loop" => Len(results) = vp - 1
        /\ (pc = "report" \/ (pc = "exited" /\ vp >= 1))
              => Len(results) = Len(VIEWPORTS)
        /\ Len(results) <= Len(VIEWPORTS)
        /\ \A i \in DOMAIN results :
              /\ results[i].key = VIEWPORTS[i].key
              /\ IsErrorRecord(results[i].value) \/ "error" \notin DOMAIN results[i].value
              /\ ~({ShotFile("before", results[i].key), ShotFile("after", results[i].key)}
                      \subseteq written)
                    => IsErrorRecord(results[i].value)

\* the first viewport failed, the two others were compared
C4_Witness ==
    /\ Visual
    /\ pc = "report"
    /\ Len(results) = 3
    /\ IsErrorRecord(results[1].value)
    /\ ~IsErrorRecord(results[2].value)
    /\ ~IsErrorRecord(results[3].value)

\* the step of main that stores the comparison of two screenshots whose
\* widths or heights differ
MismatchStep ==
    /\ Visual
    /\ pc = "loop"
    /\ step = "compare"
    /\ (img.before.width # img.after.width \/ img.before.height # img.after.height)
    /\ Len(results') = Len(results) + 1

\* C5: for two screenshots whose widths or heights differ compareImages
\* returns sizeMismatch = true with diffPixels = -1 and diffPercentage = -1 and
\* writes no diff image (unless decoding threw); a slot with the flag set has
\* the sentinel counts and no diff image; the report shows Size Mismatch for
\* it and does not link the diff image.
C5_SizeMismatch ==
    /\ [][MismatchStep =>
            /\ written' = written
            /\ \/ IsErrorRecord(results'[vp].value)
               \/ results'[vp].value =
                     [diffPixels |-> 0 - 1, diffPercentage |-> 0 - 1000,
                      sizeMismatch |-> TRUE]]_vars
    /\ [](Visual =>
            \A i \in DOMAIN results :
               LET r == results[i].value
               IN  ("sizeMismatch" \in DOMAIN r /\ r.sizeMismatch) =>
                      /\ r.diffPixels = 0 - 1
                      /\ r.diffPercentage = 0 - 1000
                      /\ ShotFile("diff", results[i].key) \notin written
                      /\ Reported =>
                            /\ report.rows[i].status = "Size Mismatch"
                            /\ report.details[i].label = "Size Mismatch"
                            /\ "diff" \notin report.details[i].links)

\* a written report with a size-mismatch viewport
C5_Witness ==
    /\ Reported
    /\ \E i \in DOMAIN results :
          /\ "sizeMismatch" \in DOMAIN results[i].value
          /\ results[i].value.sizeMismatch

\* the state the claim gives a result: the flag first, then the percentage
ClaimedStatus(r) ==
    IF "sizeMismatch" \in DOMAIN r /\ r.sizeMismatch THEN "Size Mismatch"
    ELSE IF r.diffPercentage = 0 THEN "No Changes"
    ELSE IF r.diffPercentage > 0 /\ r.diffPercentage <= DIFF_THRESHOLD
    THEN "Minor Differences"
    ELSE IF r.diffPercentage > DIFF_THRESHOLD THEN "Changes Detected"
    ELSE "unclassified"

ArgMissing ==
    argv.before \in {Undefined, ""} \/ argv.after \in {Undefined, ""}

\* C8: when the before or the after URL is missing the script exits with code
\* 1 before any work: no browser is launched, nothing is captured, no file or
\* directory is written.
C8_UsageError ==
    ArgMissing =>
        /\ pc \in {"start", "exited"}
        /\ pc = "exited" => exitCode = 1
        /\ launched = 0
        /\ browsers = {}
        /\ captures = <<>>
        /\ written = {}
        /\ files = <<>>
        /\ results = <<>>

\* a run with only the after URL missing has exited with code 1
C8_Witness ==
    /\ argv.before = "http://site"
    /\ argv.after = Undefined
    /\ pc = "exited"
    /\ exitCode = 1

\* C9 as stated: at most one browser session is open at any time, and the
\* captures are launched in the order before, after for each configuration.
C9_SessionsNeverOverlap ==
    /\ Cardinality(browsers) <= 1
    /\ \A i \in DOMAIN captures :
          captures[i].phase = "after" =>
             /\ i > 1
             /\ captures[i - 1] = [phase |-> "before", key |-> captures[i].key]

(***************************************************************************)
(* Agreement of the reports with what they report on.                      *)
(***************************************************************************)
\* C11 as stated: a row of a report says No Changes only if the comparison of
\* its viewport completed with diffPixels = 0, and the report says "no visual
\* changes" only if that is so for every viewport.
C11_NoChangesOnlyIfNoDiff ==
    (Visual /\ pc = "exited" /\ report # Unset /\ ~report.threw) =>
        /\ \A i \in DOMAIN report.rows :
              report.rows[i].status = "No Changes" =>
                 /\ "diffPixels" \in DOMAIN results[i].value
                 /\ results[i].value.diffPixels = 0
        /\ ~report.hasChanges =>
              \A i \in DOMAIN results :
                 /\ "diffPixels" \in DOMAIN results[i].value
                 /\ results[i].value.diffPixels = 0

\* the markdown report of the PR script is on disk and the run has ended
PRReported ==
    /\ script = "compare-accessibility-pr"
    /\ pc = "exited"
    /\ AxeReportFile \in written

\* some rule present in both scans has more nodes after than before
SomeRuleGrew ==
    \E id \in InBoth : NodeCount(AfterList, id) > NodeCount(BeforeList, id)

\* C12: in a written report of compare-accessibility-pr.js the banner "No new
\* accessibility issues introduced!" stands exactly when no rule is new and no
\* rule present in both scans grew; the New Violations section stands exactly
\* when some rule is new and lists the new rules; and when the run exits with
\* code 1 the report has no banner and has the New Violations section.
C12_ReportAgreesWithExit ==
    PRReported =>
        /\ report.noNewIssuesBanner <=> (OnlyAfter = {} /\ ~SomeRuleGrew)
        /\ Range(report.newSection) = OnlyAfter
        /\ exitCode = 1 =>
              /\ ~report.noNewIssuesBanner
              /\ report.newSection # <<>>

\* a run that exits 1 with its report written; the report also lists a rule
\* that changed
C12_Witness ==
    /\ PRReported
    /\ exitCode = 1
    /\ report.newSection # <<>>
    /\ report.changedSection # <<>>

====
